---------------------------- MODULE Spec2Model ----------------------------
(***************************************************************************)
(* A model of py2neo's command line tool (src/py2neo/tool.py): the         *)
(* interactive Shell (its read loop, its command dispatch, the parameter   *)
(* sets it multiplexes a query over) and the ResultWriter's delimited and  *)
(* Geoff serializers.                                                      *)
(*                                                                         *)
(* Text is modelled at the granularity the code works at.  A line of the   *)
(* shell is a sequence whose elements are whitespace characters and        *)
(* whitespace-free words, since CommandLine only ever strips and splits on *)
(* whitespace.  The writer's output is a sequence of characters, since the *)
(* delimited format is about which characters json.dumps lets through.     *)
(***************************************************************************)
EXTENDS Integers, Sequences, FiniteSets

VARIABLES
    \* ---- Shell (tool.py 464-611) ----
    lang,        \* Shell.lang
    format,      \* Shell.format
    param_sets,  \* Shell.param_sets: a sequence of JSON values
    mode,        \* where the read loop is: "read", "exited", "eof", "crashed"
    exc,         \* the exception that left Shell.execute for the last line
    nread,       \* how many lines input() has returned
    last,        \* the last line input() returned
    calls,       \* the CypherQuery executions issued for the last line, in order
    err,         \* what the last line wrote to sys.stderr
    out,         \* what the last line wrote to sys.stdout
    \* ---- ResultWriter (tool.py 82-234) ----
    wfmt,        \* the format being written: "none", "csv", "tsv", "geoff"
    wpc,         \* the writer's position: "idle", "rows", "done"
    columns,     \* record_set.columns
    row,         \* the last row the record set produced
    nrows,       \* how many rows the record set has produced
    wline,       \* the characters of the last line written by write_delimited
    newlines,    \* how many "\n" write_delimited has written
    nodes,       \* write_geoff's nodes set
    rels,        \* write_geoff's rels set
    found,       \* every entity object that occurred in a cell so far
    wout,        \* the lines write_geoff has written
    \* ---- CommandLine (tool.py 436-461) ----
    craw,        \* the text CommandLine was constructed from
    ctext,       \* CommandLine.text
    cop,         \* the last call: "init", "peek", "pop", "bool"
    ctok,        \* what the last peek or pop returned
    ctruth,      \* what the last bool returned
    cpopped      \* the tokens pop has returned so far, in order

shellVars == <<lang, format, param_sets, mode, exc, nread, last, calls, err, out>>
writerVars == <<wfmt, wpc, columns, row, nrows, wline, newlines, nodes, rels, found, wout>>
tokVars == <<craw, ctext, cop, ctok, ctruth, cpopped>>
vars == <<shellVars, writerVars, tokVars>>

-----------------------------------------------------------------------------
(* Bounds *)

\* how many lines one session reads at most
MaxLines == 3
\* how many rows a record set produces at most
MaxRows == 3
\* how long a text handed to CommandLine is at most
MaxText == 5

-----------------------------------------------------------------------------
(* Text: whitespace and words *)

Whitespace == {" ", "\t"}

\* The no-token sentinel: Python's None.
None == "<None>"

RECURSIVE lstrip(_)
lstrip(text) ==
    IF text # <<>> /\ Head(text) \in Whitespace THEN lstrip(Tail(text)) ELSE text

RECURSIVE rstrip(_)
rstrip(text) ==
    IF text # <<>> /\ text[Len(text)] \in Whitespace
    THEN rstrip(SubSeq(text, 1, Len(text) - 1))
    ELSE text

strip(text) == rstrip(lstrip(text))

\* str.split(None, 1): no item for whitespace-only text; the first word; and,
\* when anything but whitespace follows it, the rest without its leading
\* whitespace (trailing whitespace kept).
split1(text) ==
    LET t == lstrip(text) IN
    IF t = <<>> THEN <<>>
    ELSE LET rest == lstrip(Tail(t)) IN
         IF rest = <<>> THEN << <<Head(t)>> >> ELSE << <<Head(t)>>, rest >>

\* CommandLine.__init__
CommandLine(text) == strip(text)

\* CommandLine.__bool__
bool(text) == text # <<>>

\* CommandLine.peek
peek(text) ==
    LET bits == split1(text) IN
    IF bits = <<>> THEN None ELSE bits[1][1]

\* CommandLine.pop: the token it returns
pop(text) ==
    LET bits == split1(text) IN
    IF bits = <<>> THEN None ELSE bits[1][1]

\* pop keeping whatever follows the token, leading whitespace included
popped_untrimmed(text) ==
    IF lstrip(text) = <<>> THEN text ELSE Tail(lstrip(text))

\* CommandLine.pop: the text it leaves
popped(text) ==
    LET bits == split1(text) IN
    IF bits = <<>> THEN text
    ELSE IF Len(bits) >= 2 THEN bits[2] ELSE <<>>

\* str.upper on the words of the model
upper(w) ==
    CASE w \in {"help", "Help"} -> "HELP"
      [] w \in {"exit", "Exit"} -> "EXIT"
      [] w = "execute" -> "EXECUTE"
      [] w \in {"add", "Add"} -> "ADD"
      [] w = "clear" -> "CLEAR"
      [] w = "show" -> "SHOW"
      [] w = "version" -> "VERSION"
      [] w \in {"parameters", "Parameters"} -> "PARAMETERS"
      [] w = "foo" -> "FOO"
      [] w = "return" -> "RETURN"
      [] w = "q.cyp" -> "Q.CYP"
      [] w = "~/q.cyp" -> "~/Q.CYP"
      [] w = "arr.json" -> "ARR.JSON"
      [] w = "one.json" -> "ONE.JSON"
      [] w = "missing" -> "MISSING"
      [] OTHER -> w

\* No CommandLine is in use
TokIdle ==
    /\ craw = <<>>
    /\ ctext = <<>>
    /\ cop = "idle"
    /\ ctok = None
    /\ ctruth = FALSE
    /\ cpopped = <<>>

\* What a text is made of: words and whitespace characters
Symbols == {"a", "b"} \cup Whitespace

\* The texts of at most MaxText symbols: two words are never adjacent, for
\* they would be one word
Texts ==
    { t \in UNION {[1..n -> Symbols] : n \in 0..MaxText} :
        \A i \in 1..(Len(t) - 1) : t[i] \in Whitespace \/ t[i + 1] \in Whitespace }

\* CommandLine(text), for any text
TokInit ==
    /\ craw \in Texts
    /\ ctext = CommandLine(craw)
    /\ cop = "init"
    /\ ctok = None
    /\ ctruth = FALSE
    /\ cpopped = <<>>

\* A call of CommandLine.peek
TokPeek ==
    /\ cop # "idle"
    /\ cop' = "peek"
    /\ ctok' = peek(ctext)
    /\ UNCHANGED <<shellVars, writerVars, craw, ctext, ctruth, cpopped>>

\* A call of CommandLine.pop
TokPop ==
    /\ cop # "idle"
    /\ cop' = "pop"
    /\ ctok' = pop(ctext)
    /\ ctext' = popped(ctext)
    /\ cpopped' = IF ctok' = None THEN cpopped ELSE Append(cpopped, ctok')
    /\ UNCHANGED <<shellVars, writerVars, craw, ctruth>>

\* A call of CommandLine.__bool__
TokBool ==
    /\ cop # "idle"
    /\ cop' = "bool"
    /\ ctruth' = bool(ctext)
    /\ UNCHANGED <<shellVars, writerVars, craw, ctext, ctok, cpopped>>

-----------------------------------------------------------------------------
(* JSON values, as json.load returns them: dict, list, or a scalar *)

JDict(id) == [t |-> "dict", id |-> id, items |-> <<>>]
JList(items) == [t |-> "list", id |-> "", items |-> items]
JNum(id) == [t |-> "num", id |-> id, items |-> <<>>]

\* {}: what execute_cypher binds when it is handed no dict
NoParams == JDict("")

isinstance(v, type) == v.t = type

-----------------------------------------------------------------------------
(* The files the session can name *)

\* os.path.expanduser: a leading ~ becomes the home directory
expanduser(name) == IF name = "~/q.cyp" THEN "/home/q.cyp" ELSE name

\* codecs.open raises IOError for these
Unreadable == {"missing"}

\* json.load raises ValueError for these
Malformed == {"bad.json"}

\* f.read() of a readable file
FileText(name) ==
    CASE name \in {"q.cyp", "/home/q.cyp"} -> <<"RETURN", " ", "1">>
      [] OTHER -> <<name>>

\* json.load of a readable, well-formed file
FileJson(name) ==
    CASE name = "one.json" -> JDict("a")
      [] name = "arr.json" -> JList(<<JDict("a"), JDict("b"), JDict("c")>>)
      [] name = "empty.json" -> JList(<<>>)
      [] name = "num.json" -> JNum("7")
      [] name = "mixed.json" -> JList(<<JNum("7"), JList(<<JDict("b"), JDict("a")>>)>>)
      [] OTHER -> JNum("0")

-----------------------------------------------------------------------------
(* The lines input() can return *)

InputLines ==
    { <<>>, <<" ", "\t">>,
      <<"RETURN", " ", "1">>, <<" ", "return", " ", "1", " ">>,
      <<"HELP">>, <<"help", " ", "foo">>,
      <<"VERSION">>, <<"version">>,
      <<"EXIT">>, <<" ", "Exit", " ", "1">>, <<"exit">>,
      <<"EXECUTE", " ", "q.cyp">>, <<"execute", "\t", "~/q.cyp">>,
      <<"EXECUTE", " ", "missing">>, <<"EXECUTE">>,
      <<"ADD", " ", "PARAMETERS", " ", "one.json">>,
      <<"add", " ", "Parameters", " ", "arr.json">>,
      <<"ADD", " ", "PARAMETERS", " ", "empty.json">>,
      <<"ADD", " ", "PARAMETERS", " ", "num.json">>,
      <<"ADD", " ", "parameters", " ", "mixed.json">>,
      <<"ADD", " ", "PARAMETERS", " ", "bad.json">>,
      <<"ADD", " ", "PARAMETERS", " ", "missing">>,
      <<"ADD", " ", "PARAMETERS">>, <<"ADD">>, <<"Add", " ", "foo">>,
      <<"CLEAR", " ", "PARAMETERS">>, <<"clear", " ", "parameters", " ", "1">>,
      <<"CLEAR", " ", "FOO">>, <<"CLEAR">>,
      <<"SHOW", " ", "PARAMETERS">>, <<"show", " ", "foo">>, <<"SHOW">> }

-----------------------------------------------------------------------------
(* What handling one line does: the exception that leaves the handler ("" *)
(* for none), the parameter sets it leaves, the query executions it       *)
(* issued, and what it wrote to sys.stderr and sys.stdout.                *)

Result(e, ps, c, er, o) == [exc |-> e, ps |-> ps, calls |-> c, err |-> er, out |-> o]

Raise(e) == Result(e, param_sets, <<>>, <<>>, <<>>)

Printed(kind, n, ps) == [kind |-> kind, n |-> n, ps |-> ps]

\* neo4j.CypherQuery(...).execute(**params) returns a record set or raises
\* CypherError: the server decides.
Outcomes == {"ok", "CypherError"}

\* The dict each execution of execute_cypher binds, in the order the
\* executions happen: a list recurses into its items, a dict binds itself,
\* anything else binds {}.
RECURSIVE Bindings(_)
Bindings(params) ==
    IF isinstance(params, "list")
    THEN IF params.items = <<>> THEN <<>>
         ELSE Bindings(Head(params.items)) \o Bindings(JList(Tail(params.items)))
    ELSE IF ~isinstance(params, "dict") THEN <<NoParams>> ELSE <<params>>

SelectKind(cs, o) == SelectSeq(cs, LAMBDA c : c.outcome = o)

\* Up to and including the first execution that raised
RECURSIVE UntilError(_)
UntilError(cs) ==
    IF cs = <<>> THEN <<>>
    ELSE IF Head(cs).outcome = "CypherError" THEN <<Head(cs)>>
    ELSE <<Head(cs)>> \o UntilError(Tail(cs))

\* execute_cypher with the try around the loop: the first CypherError ends it
execute_cypher_abort(query, params) ==
    LET bs == Bindings(params) IN
    { LET cs == UntilError([k \in 1..Len(bs) |->
                    [query |-> query, params |-> bs[k], outcome |-> oc[k]]])
      IN Result("", param_sets, cs,
                [k \in 1..Len(SelectKind(cs, "CypherError")) |-> "CypherError"],
                [k \in 1..Len(SelectKind(cs, "ok")) |->
                    Printed("result", 0, <<SelectKind(cs, "ok")[k].params>>)])
      : oc \in [1..Len(bs) -> Outcomes] }

\* execute_cypher popping each set off the shell's list as it binds it
execute_cypher_consume(query, params) ==
    LET bs == Bindings(params) IN
    { LET cs == [k \in 1..Len(bs) |->
                    [query |-> query, params |-> bs[k], outcome |-> oc[k]]]
      IN Result("", <<>>, cs,
                [k \in 1..Len(SelectKind(cs, "CypherError")) |-> "CypherError"],
                [k \in 1..Len(SelectKind(cs, "ok")) |->
                    Printed("result", 0, <<SelectKind(cs, "ok")[k].params>>)])
      : oc \in [1..Len(bs) -> Outcomes] }

\* Shell.execute_cypher: one result per way the server can answer
execute_cypher(query, params) ==
    LET bs == Bindings(params) IN
    { LET cs == [k \in 1..Len(bs) |->
                    [query |-> query, params |-> bs[k], outcome |-> oc[k]]]
      IN Result("", param_sets, cs,
                [k \in 1..Len(SelectKind(cs, "CypherError")) |-> "CypherError"],
                [k \in 1..Len(SelectKind(cs, "ok")) |->
                    Printed("result", 0, <<SelectKind(cs, "ok")[k].params>>)])
      : oc \in [1..Len(bs) -> Outcomes] }

\* Shell.help
help(line) == {Result("", param_sets, <<>>, <<>>, <<Printed("help", 0, <<>>)>>)}

\* Shell.show_neo4j_version
show_neo4j_version(line) ==
    {Result("", param_sets, <<>>, <<>>, <<Printed("version", 0, <<>>)>>)}

\* Shell.execute_cypher_from_file.  Shell has no attribute params: reading
\* self.params for the call raises AttributeError before anything executes.
execute_cypher_from_file(line) ==
    LET arg == pop(popped(line)) IN
    IF arg = None THEN {Raise("TypeError")}
    ELSE LET file_name == expanduser(arg) IN
         IF file_name \in Unreadable
         THEN {Result("", param_sets, <<>>, <<"IOError">>, <<>>)}
         ELSE {Raise("AttributeError")}

\* Shell.add_parameters_from_file.  The second isinstance reads self.params,
\* which Shell does not have: every document that is not a list raises
\* AttributeError.
add_parameters_from_file(line) ==
    LET arg == pop(line) IN
    IF arg = None THEN {Raise("TypeError")}
    ELSE LET file_name == expanduser(arg) IN
         IF file_name \in Unreadable
         THEN {Result("", param_sets, <<>>, <<"IOError">>, <<>>)}
         ELSE IF file_name \in Malformed THEN {Raise("ValueError")}
         ELSE LET params == FileJson(file_name) IN
              IF isinstance(params, "list")
              THEN {Result("", param_sets \o params.items, <<>>, <<>>,
                           <<Printed("added", Len(params.items), <<>>)>>)}
              ELSE {Raise("AttributeError")}

\* Shell.clear_parameters
clear_parameters(line) == {Result("", <<>>, <<>>, <<>>, <<>>)}

\* Shell.show_parameters
show_parameters(line) ==
    {Result("", param_sets, <<>>, <<>>, <<Printed("show", 0, param_sets)>>)}

BadCommand == {Result("", param_sets, <<>>, <<"Bad command">>, <<>>)}

\* Shell.add_something
add_something(line) ==
    LET subject == pop(popped(line)) IN
    IF subject = None THEN {Raise("AttributeError")}
    ELSE IF upper(subject) = "PARAMETERS"
         THEN add_parameters_from_file(popped(popped(line)))
         ELSE BadCommand

\* clear_something without the test of its subject
clear_something_any(line) ==
    LET subject == pop(popped(line)) IN
    IF subject = None THEN {Raise("AttributeError")}
    ELSE clear_parameters(popped(popped(line)))

\* Shell.clear_something
clear_something(line) ==
    LET subject == pop(popped(line)) IN
    IF subject = None THEN {Raise("AttributeError")}
    ELSE IF upper(subject) = "PARAMETERS"
         THEN clear_parameters(popped(popped(line)))
         ELSE BadCommand

\* Shell.show_something
show_something(line) ==
    LET subject == pop(popped(line)) IN
    IF subject = None THEN {Raise("AttributeError")}
    ELSE IF upper(subject) = "PARAMETERS"
         THEN show_parameters(popped(popped(line)))
         ELSE BadCommand

\* The branch Shell.execute takes for a line
Branch(text) ==
    LET line == CommandLine(text) IN
    IF ~bool(line) THEN "blank"
    ELSE LET command == upper(peek(line)) IN
         IF command \in {"HELP", "EXECUTE", "EXIT", "ADD", "CLEAR", "SHOW", "VERSION"}
         THEN command
         ELSE "cypher"

\* Shell.execute
execute(text) ==
    LET line == CommandLine(text)
        b == Branch(text)
    IN CASE b = "blank" -> {Result("", param_sets, <<>>, <<>>, <<>>)}
         [] b = "HELP" -> help(line)
         [] b = "EXECUTE" -> execute_cypher_from_file(line)
         [] b = "EXIT" -> {Raise("StopIteration")}
         [] b = "ADD" -> add_something(line)
         [] b = "CLEAR" -> clear_something(line)
         [] b = "SHOW" -> show_something(line)
         [] b = "VERSION" -> show_neo4j_version(line)
         [] OTHER -> execute_cypher(line, JList(param_sets))

-----------------------------------------------------------------------------
(* The read loop *)

ShellInit ==
    /\ lang = "cypher"
    /\ format = "text"
    /\ param_sets = <<>>
    /\ mode = "read"
    /\ exc = ""
    /\ nread = 0
    /\ last = <<>>
    /\ calls = <<>>
    /\ err = <<>>
    /\ out = <<>>

WriterIdle ==
    /\ wfmt = "none"
    /\ wpc = "idle"
    /\ columns = <<>>
    /\ row = <<>>
    /\ nrows = 0
    /\ wline = <<>>
    /\ newlines = 0
    /\ nodes = {}
    /\ rels = {}
    /\ found = {}
    /\ wout = <<>>

\* _repl3 with StopIteration caught inside the loop
After_inside(e) ==
    CASE e \in {"", "StopIteration"} -> "read"
      [] OTHER -> "crashed"

\* Where an exception leaving Shell.execute takes _repl3: StopIteration is
\* caught and ends the loop; anything else but EOFError propagates.
After(e) ==
    CASE e = "" -> "read"
      [] e = "StopIteration" -> "exited"
      [] OTHER -> "crashed"

\* One turn of _repl3's loop: input() returns a line, execute handles it.
ReadLine(text) ==
    /\ mode = "read"
    /\ nread < MaxLines
    /\ \E r \in execute(text) :
          /\ nread' = nread + 1
          /\ last' = text
          /\ exc' = r.exc
          /\ mode' = After(r.exc)
          /\ param_sets' = r.ps
          /\ calls' = r.calls
          /\ err' = r.err
          /\ out' = r.out
    /\ UNCHANGED <<lang, format, writerVars, tokVars>>

\* The turns of the loop, by the branch of Shell.execute the line takes
Blank ==
    \E text \in InputLines : Branch(text) = "blank" /\ ReadLine(text)

Help ==
    \E text \in InputLines : Branch(text) = "HELP" /\ ReadLine(text)

ExecuteFile ==
    \E text \in InputLines : Branch(text) = "EXECUTE" /\ ReadLine(text)

Exit ==
    \E text \in InputLines : Branch(text) = "EXIT" /\ ReadLine(text)

Add ==
    \E text \in InputLines : Branch(text) = "ADD" /\ ReadLine(text)

Clear ==
    \E text \in InputLines : Branch(text) = "CLEAR" /\ ReadLine(text)

Show ==
    \E text \in InputLines : Branch(text) = "SHOW" /\ ReadLine(text)

Version ==
    \E text \in InputLines : Branch(text) = "VERSION" /\ ReadLine(text)

Cypher ==
    \E text \in InputLines : Branch(text) = "cypher" /\ ReadLine(text)

\* input() raises EOFError: _repl3 prints the end mark and returns.
EndOfInput ==
    /\ mode = "read"
    /\ mode' = "eof"
    /\ exc' = "EOFError"
    /\ calls' = <<>>
    /\ err' = <<>>
    /\ out' = <<Printed("eof", 0, <<>>)>>
    /\ UNCHANGED <<lang, format, param_sets, nread, last, writerVars, tokVars>>

Init == ShellInit /\ WriterIdle /\ TokIdle

Next ==
    \/ Blank
    \/ Help
    \/ ExecuteFile
    \/ Exit
    \/ Add
    \/ Clear
    \/ Show
    \/ Version
    \/ Cypher
    \/ EndOfInput

Spec == Init /\ [][Next]_vars


-----------------------------------------------------------------------------
(* Result cells.  Text is a sequence of characters. *)

Cell(t, chars, oid, items) == [t |-> t, s |-> chars, oid |-> oid, items |-> items]

Null == Cell("null", <<>>, 0, <<>>)
Str(chars) == Cell("str", chars, 0, <<>>)
Num(digits) == Cell("int", digits, 0, <<>>)
BoolTrue == Cell("bool", <<"1">>, 0, <<>>)
\* Two entity objects with the same URI stand for the same entity: oid tells
\* the objects apart.
Node(uri, oid) == Cell("node", uri, oid, <<>>)
Rel(uri, oid) == Cell("rel", uri, oid, <<>>)
List(items) == Cell("list", <<>>, 0, items)

N1 == <<"n", "/", "1">>
N10 == <<"n", "/", "1", "0">>
N2 == <<"n", "/", "2">>
R1 == <<"r", "/", "1">>
R2 == <<"r", "/", "2">>

EntityObjects ==
    {Node(N1, 1), Node(N1, 2), Node(N10, 1), Node(N2, 1), Rel(R1, 1), Rel(R2, 1)}

Scalars ==
    { Null, Str(<<"a", ",", "b">>), Str(<<"\t", "\"">>), Str(<<"\\", "\n">>),
      Num(<<"1", "0">>), BoolTrue }

Lists ==
    { List(<<Num(<<"1">>), Str(<<"a", ",", "b">>)>>),
      List(<<Node(N2, 1), Rel(R1, 1)>>),
      List(<<Str(<<"a">>), List(<<Node(N10, 1), Null>>)>>) }

Cells == EntityObjects \cup Scalars \cup Lists

\* The cells a second column holds
SecondCells ==
    { Null, Str(<<"a", ",", "b">>), Node(N1, 2), Rel(R2, 1),
      List(<<Node(N2, 1), Rel(R1, 1)>>) }

\* The rows a record set can produce: one or two cells
Rows == {<<c>> : c \in Cells} \cup {<<c, d>> : c \in Cells, d \in SecondCells}

\* The column lists a record set can have
ColumnLists == { <<<<"a">>>>, <<<<"n">>, <<"b", ",", "\"", "\t">>>> }

\* The code point of a character
ord(c) ==
    CASE c = "\t" -> 9
      [] c = "\n" -> 10
      [] c = " " -> 32
      [] c = "\"" -> 34
      [] c = "(" -> 40
      [] c = ")" -> 41
      [] c = "," -> 44
      [] c = "/" -> 47
      [] c = "0" -> 48
      [] c = "1" -> 49
      [] c = "2" -> 50
      [] c = "[" -> 91
      [] c = "\\" -> 92
      [] c = "]" -> 93
      [] c = "a" -> 97
      [] c = "b" -> 98
      [] c = "n" -> 110
      [] c = "r" -> 114
      [] OTHER -> 120

\* str.__lt__: lexicographic by code point
RECURSIVE str_lt(_, _)
str_lt(a, b) ==
    IF b = <<>> THEN FALSE
    ELSE IF a = <<>> THEN TRUE
    ELSE IF ord(Head(a)) # ord(Head(b)) THEN ord(Head(a)) < ord(Head(b))
    ELSE str_lt(Tail(a), Tail(b))

\* hasattr(value, "__uri__") and hasattr(value, "_properties")
is_entity(value) == value.t \in {"node", "rel"}

\* hasattr(value, "type")
has_type(value) == value.t = "rel"

\* An entity's __eq__ and __hash__: by URI
entity_eq(a, b) == a.s = b.s

\* An entity's __lt__: by URI
entity_lt(a, b) == str_lt(a.s, b.s)

\* ustr of a scalar or an entity
ustr(value) ==
    CASE value.t = "bool" -> IF value.s = <<"1">> THEN <<"T", "r", "u", "e">>
                             ELSE <<"F", "a", "l", "s", "e">>
      [] value.t = "node" -> <<"(">> \o value.s \o <<")">>
      [] value.t = "rel" -> <<"[">> \o value.s \o <<"]">>
      [] OTHER -> value.s

-----------------------------------------------------------------------------
(* json.dumps and ResultWriter._stringify *)

\* json.dumps of one character of a str (ensure_ascii=False)
json_escape(c) ==
    CASE c = "\"" -> <<"\\", "\"">>
      [] c = "\\" -> <<"\\", "\\">>
      [] c = "\n" -> <<"\\", "n">>
      [] c = "\t" -> <<"\\", "t">>
      [] OTHER -> <<c>>

RECURSIVE json_escape_all(_)
json_escape_all(chars) ==
    IF chars = <<>> THEN <<>>
    ELSE json_escape(Head(chars)) \o json_escape_all(Tail(chars))

\* json.dumps of a str
json_dumps_str(chars) == <<"\"">> \o json_escape_all(chars) \o <<"\"">>

\* json.dumps of a scalar; an entity is no JSON type, so the TypeError branch
\* dumps its ustr
json_dumps(value) ==
    CASE value.t = "str" -> json_dumps_str(value.s)
      [] value.t = "int" -> value.s
      [] value.t = "bool" -> IF value.s = <<"1">> THEN <<"t", "r", "u", "e">>
                             ELSE <<"f", "a", "l", "s", "e">>
      [] OTHER -> json_dumps_str(ustr(value))

\* sep.join(parts)
RECURSIVE join(_, _)
join(sep, parts) ==
    IF parts = <<>> THEN <<>>
    ELSE IF Len(parts) = 1 THEN parts[1]
    ELSE parts[1] \o sep \o join(sep, Tail(parts))

\* ResultWriter._stringify
RECURSIVE stringify(_, _)
stringify(value, quoted) ==
    IF value.t = "null" THEN (IF quoted THEN <<"n", "u", "l", "l">> ELSE <<>>)
    ELSE IF value.t = "list"
    THEN LET o == join(<<" ">>, [k \in 1..Len(value.items) |->
                                    stringify(value.items[k], FALSE)])
         IN IF quoted THEN json_dumps_str(o) ELSE o
    ELSE IF quoted THEN json_dumps(value) ELSE ustr(value)

\* The formats table's extra arguments
field_delimiter(fmt) == IF fmt = "csv" THEN <<",">> ELSE <<"\t">>

\* How many times c occurs in chars
RECURSIVE count_char(_, _)
count_char(chars, c) ==
    IF chars = <<>> THEN 0
    ELSE (IF Head(chars) = c THEN 1 ELSE 0) + count_char(Tail(chars), c)

-----------------------------------------------------------------------------
(* ResultWriter.write_delimited *)

\* The header line, without its "\n"
header_line(fmt, cols) ==
    join(field_delimiter(fmt), [k \in 1..Len(cols) |-> json_dumps_str(cols[k])])

\* row_line with the cells stringified unquoted
row_line_unquoted(fmt, r) ==
    join(field_delimiter(fmt), [k \in 1..Len(r) |-> stringify(r[k], FALSE)])

\* The line of one row, without its "\n"
row_line(fmt, r) ==
    join(field_delimiter(fmt), [k \in 1..Len(r) |-> stringify(r[k], TRUE)])

\* write_delimited up to its loop: the header line and its "\n"
DelimitedHeader ==
    /\ wfmt \in {"csv", "tsv"}
    /\ wpc = "start"
    /\ wline' = header_line(wfmt, columns)
    /\ newlines' = newlines + count_char(wline' \o <<"\n">>, "\n")
    /\ wpc' = "rows"
    /\ UNCHANGED <<shellVars, tokVars, wfmt, columns, row, nrows, nodes, rels, found, wout>>

\* One turn of write_delimited's loop: the record set produces a row
DelimitedRow ==
    /\ wfmt \in {"csv", "tsv"}
    /\ wpc = "rows"
    /\ nrows < MaxRows
    /\ \E r \in Rows :
          /\ row' = r
          /\ wline' = row_line(wfmt, r)
    /\ nrows' = nrows + 1
    /\ newlines' = newlines + count_char(wline' \o <<"\n">>, "\n")
    /\ UNCHANGED <<shellVars, tokVars, wfmt, wpc, columns, nodes, rels, found, wout>>

\* The record set is exhausted: write_delimited returns
DelimitedEnd ==
    /\ wfmt \in {"csv", "tsv"}
    /\ wpc = "rows"
    /\ wpc' = "done"
    /\ UNCHANGED <<shellVars, tokVars, wfmt, columns, row, nrows, wline, newlines, nodes, rels,
                   found, wout>>

-----------------------------------------------------------------------------
(* ResultWriter.write_geoff *)

\* set.add
set_add(S, e) == IF \E x \in S : entity_eq(x, e) THEN S ELSE S \cup {e}

\* update_descriptors without its list branch
update_descriptors_flat(sets, value) ==
    IF is_entity(value)
    THEN IF has_type(value)
         THEN [sets EXCEPT !.rels = set_add(@, value)]
         ELSE [sets EXCEPT !.nodes = set_add(@, value)]
    ELSE sets

\* write_geoff's update_descriptors, on the pair of sets it updates
RECURSIVE update_descriptors(_, _)
update_descriptors(sets, value) ==
    IF value.t = "list"
    THEN IF value.items = <<>> THEN sets
         ELSE update_descriptors(update_descriptors(sets, Head(value.items)),
                                 List(Tail(value.items)))
    ELSE IF is_entity(value)
    THEN IF has_type(value)
         THEN [sets EXCEPT !.rels = set_add(@, value)]
         ELSE [sets EXCEPT !.nodes = set_add(@, value)]
    ELSE sets

\* for i in range(len(row)): update_descriptors(row[i])
RECURSIVE update_row(_, _)
update_row(sets, r) ==
    IF r = <<>> THEN sets
    ELSE update_row(update_descriptors(sets, Head(r)), Tail(r))

\* sorted(entities)
RECURSIVE sorted(_)
sorted(S) ==
    IF S = {} THEN <<>>
    ELSE LET m == CHOOSE x \in S : \A y \in S : ~entity_lt(y, x)
         IN <<m>> \o sorted(S \ {m})

\* The lines written for a sequence of entities: ustr of each
lines_of(es) == [k \in 1..Len(es) |-> ustr(es[k])]

\* The lines write_geoff writes once the rows are scanned
geoff_lines(ns, rs) == lines_of(sorted(ns)) \o lines_of(sorted(rs))

\* e occurs in a cell, at any depth of lists
RECURSIVE Occurs(_, _)
Occurs(e, value) ==
    \/ value = e
    \/ \E k \in 1..Len(value.items) : Occurs(e, value.items[k])

\* One turn of write_geoff's loop over the record set
GeoffRow ==
    /\ wfmt = "geoff"
    /\ wpc = "start"
    /\ nrows < MaxRows
    /\ \E r \in Rows :
          /\ row' = r
          /\ LET sets == update_row([nodes |-> nodes, rels |-> rels], r)
             IN nodes' = sets.nodes /\ rels' = sets.rels
          /\ found' = found \cup
                {e \in EntityObjects : \E i \in 1..Len(r) : Occurs(e, r[i])}
    /\ nrows' = nrows + 1
    /\ UNCHANGED <<shellVars, tokVars, wfmt, wpc, columns, wline, newlines, wout>>

\* The record set is exhausted: the nodes are written, then the relationships
GeoffEnd ==
    /\ wfmt = "geoff"
    /\ wpc = "start"
    /\ wout' = geoff_lines(nodes, rels)
    /\ wpc' = "done"
    /\ UNCHANGED <<shellVars, tokVars, wfmt, columns, row, nrows, wline, newlines, nodes, rels,
                   found>>

\* ResultWriter.write: a format of the table and a record set's columns
WriterInit ==
    /\ wfmt \in {"csv", "tsv", "geoff"}
    /\ wpc = "start"
    /\ columns \in ColumnLists
    /\ row = <<>>
    /\ nrows = 0
    /\ wline = <<>>
    /\ newlines = 0
    /\ nodes = {}
    /\ rels = {}
    /\ found = {}
    /\ wout = <<>>

InitWriter == ShellInit /\ WriterInit /\ TokIdle

NextWriter ==
    \/ DelimitedHeader
    \/ DelimitedRow
    \/ DelimitedEnd
    \/ GeoffRow
    \/ GeoffEnd

SpecWriter == InitWriter /\ [][NextWriter]_vars

InitTokenizer == ShellInit /\ WriterIdle /\ TokInit

NextTokenizer ==
    \/ TokPeek
    \/ TokPop
    \/ TokBool

SpecTokenizer == InitTokenizer /\ [][NextTokenizer]_vars

-----------------------------------------------------------------------------
(* Claims about the shell *)

\* This step is a turn of the read loop whose line takes branch b
Handles(b) == mode = "read" /\ nread' = nread + 1 /\ Branch(last') = b

\* The token after the command word of a line
Subject(text) == pop(popped(CommandLine(text)))

\* The token after the subject of a line
Argument(text) == pop(popped(popped(CommandLine(text))))

AllDicts(ps) == \A k \in 1..Len(ps) : isinstance(ps[k], "dict")

IsPrefix(s, t) == Len(s) <= Len(t) /\ SubSeq(t, 1, Len(s)) = s

\* C1: with N >= 1 parameter sets stored (each a mapping), a line that is no
\* shell command issues exactly N executions of the stripped line, the k-th
\* bound to the k-th stored set, whatever each execution's outcome is (ok or
\* CypherError), and the loop goes on reading.
C1_Multiplex ==
    [][ (Handles("cypher") /\ Len(param_sets) >= 1 /\ AllDicts(param_sets))
        => /\ Len(calls') = Len(param_sets)
           /\ \A k \in 1..Len(param_sets) :
                 /\ calls'[k].params = param_sets[k]
                 /\ calls'[k].query = CommandLine(last')
           /\ Len(err') = Len(SelectKind(calls', "CypherError"))
           /\ mode' = "read" ]_vars

\* C1 witness: three sets stored, the first execution raised CypherError and
\* the two after it still ran, in stored order.
C1_Witness ==
    /\ nread >= 2
    /\ Branch(last) = "cypher"
    /\ param_sets = <<JDict("a"), JDict("b"), JDict("c")>>
    /\ Len(calls) = 3
    /\ calls[1].outcome = "CypherError"
    /\ calls[2].outcome = "ok"
    /\ calls[3].params = JDict("c")

\* C2: with no parameter set stored, a query line is executed exactly once,
\* with no bound parameters.
C2_EmptyListRunsOnce ==
    [][ (Handles("cypher") /\ param_sets = <<>>)
        => (Len(calls') = 1 /\ calls'[1].params = NoParams) ]_vars

\* C3: the read loop ends only on EXIT or on end-of-input: no exception
\* raised while handling a line ends the session.
C3_OnlyExitOrEofEnds == mode # "read" => exc \in {"StopIteration", "EOFError"}

\* C4: EXECUTE <file> on a readable file does what entering the file's text
\* as a query does: the same executions, the same reports, and the loop goes
\* on reading.
C4_ExecuteFileLikeInline ==
    [][ (Handles("EXECUTE") /\ Subject(last') # None
            /\ expanduser(Subject(last')) \notin Unreadable)
        => /\ mode' = "read"
           /\ \E r \in execute_cypher(FileText(expanduser(Subject(last'))),
                                      JList(param_sets)) :
                 calls' = r.calls /\ err' = r.err /\ out' = r.out ]_vars

\* What the parameter file format says a document adds
SetsOf(doc) ==
    IF isinstance(doc, "dict") THEN <<doc>>
    ELSE IF isinstance(doc, "list") /\ AllDicts(doc.items) THEN doc.items
    ELSE <<>>

\* C5: ADD PARAMETERS <file> appends by the document's shape: an object
\* appends itself, an array of objects appends its elements in order, any
\* other shape appends nothing; the sets already stored keep their places.
C5_AddByShape ==
    [][ (Handles("ADD") /\ Subject(last') # None
            /\ upper(Subject(last')) = "PARAMETERS"
            /\ Argument(last') # None
            /\ expanduser(Argument(last')) \notin (Unreadable \cup Malformed))
        => param_sets' = param_sets \o SetsOf(FileJson(expanduser(Argument(last'))))
      ]_vars

\* C6: a line whose first token is EXIT in any letter case ends the loop at
\* once: no query is executed for it, and once the loop has ended no line is
\* read or handled.
C6_ExitEndsLoop ==
    [][ /\ (mode = "read" /\ nread' = nread + 1
               /\ bool(CommandLine(last'))
               /\ upper(peek(CommandLine(last'))) = "EXIT")
           => (mode' = "exited" /\ calls' = <<>> /\ param_sets' = param_sets)
        /\ mode = "exited" => UNCHANGED shellVars ]_vars

\* C6 witness: a lower-case exit ended the loop before the session's line
\* budget was used up.
C6_Witness ==
    /\ mode = "exited"
    /\ peek(CommandLine(last)) \in {"exit", "Exit"}
    /\ nread < MaxLines
    /\ calls = <<>>

\* C7: ADD, CLEAR or SHOW followed by a token that is not PARAMETERS in any
\* letter case reports an error on stderr, executes no query, leaves the
\* parameter sets as they were, and the loop goes on reading.
C7_BadSubject ==
    [][ ((Handles("ADD") \/ Handles("CLEAR") \/ Handles("SHOW"))
            /\ Subject(last') # None
            /\ upper(Subject(last')) # "PARAMETERS")
        => /\ err' = <<"Bad command">>
           /\ calls' = <<>>
           /\ param_sets' = param_sets
           /\ mode' = "read" ]_vars

\* C7 witness: CLEAR FOO was handled with sets stored; they are still there.
C7_Witness ==
    /\ Branch(last) = "CLEAR"
    /\ Subject(last) = "FOO"
    /\ param_sets # <<>>
    /\ err = <<"Bad command">>
    /\ mode = "read"

\* C10: the parameter sets start empty and change only by an ADD PARAMETERS
\* that returned (the old list is a prefix of the new one) or by a CLEAR
\* PARAMETERS (the new list is empty); no step changes lang or format.
C10_Frame ==
    [][ /\ nread = 0 => (param_sets = <<>> /\ lang = "cypher" /\ format = "text")
        /\ lang' = lang
        /\ format' = format
        /\ param_sets' # param_sets
           => \/ /\ Handles("ADD")
                 /\ upper(Subject(last')) = "PARAMETERS"
                 /\ exc' = ""
                 /\ IsPrefix(param_sets, param_sets')
              \/ /\ Handles("CLEAR")
                 /\ upper(Subject(last')) = "PARAMETERS"
                 /\ param_sets' = <<>> ]_vars

\* C10 witness: a query that failed for every stored set left the sets stored.
C10_Witness ==
    /\ Branch(last) = "cypher"
    /\ Len(param_sets) = 3
    /\ Len(calls) = 3
    /\ \A k \in 1..3 : calls[k].outcome = "CypherError"


-----------------------------------------------------------------------------
(* Claims about the writer *)

UrisOf(F, kind) == {e.s : e \in {x \in F : x.t = kind}}

\* The URI inside a line written for an entity
UriOfLine(line) == SubSeq(line, 2, Len(line) - 1)

Ascending(lines, lo, hi) ==
    \A i, j \in lo..hi : i < j => str_lt(UriOfLine(lines[i]), UriOfLine(lines[j]))

\* C8: the Geoff output is decided by the entities found in the cells, at
\* any depth of lists: one line per distinct node URI, ascending by URI, then
\* one line per distinct relationship URI, ascending by URI, and nothing else.
C8_Geoff ==
    (wfmt = "geoff" /\ wpc = "done") =>
        LET NU == UrisOf(found, "node")
            RU == UrisOf(found, "rel")
            n == Cardinality(NU)
            r == Cardinality(RU)
        IN /\ Len(wout) = n + r
           /\ \A k \in 1..n : \E u \in NU : wout[k] = <<"(">> \o u \o <<")">>
           /\ \A k \in (n + 1)..(n + r) : \E u \in RU : wout[k] = <<"[">> \o u \o <<"]">>
           /\ Ascending(wout, 1, n)
           /\ Ascending(wout, n + 1, n + r)

\* C8 witness: the same node came as two objects, entities came inside lists
\* and beside scalars, and five lines were written for six objects.
C8_Witness ==
    /\ wfmt = "geoff"
    /\ wpc = "done"
    /\ found = EntityObjects
    /\ nrows >= 2
    /\ Len(wout) = 5

\* How many delimiters a line holds outside its double-quoted strings
RECURSIVE Delimiters(_, _, _, _)
Delimiters(chars, d, quoted, escaped) ==
    IF chars = <<>> THEN 0
    ELSE LET c == Head(chars) IN
         IF escaped THEN Delimiters(Tail(chars), d, quoted, FALSE)
         ELSE IF quoted /\ c = "\\" THEN Delimiters(Tail(chars), d, quoted, TRUE)
         ELSE IF c = "\"" THEN Delimiters(Tail(chars), d, ~quoted, FALSE)
         ELSE (IF ~quoted /\ c = d THEN 1 ELSE 0)
              + Delimiters(Tail(chars), d, quoted, FALSE)

\* The number of delimiter-separated fields of a line
Fields(chars, fmt) == 1 + Delimiters(chars, field_delimiter(fmt)[1], FALSE, FALSE)

\* C9 as stated: M+1 newline-terminated lines of N fields each, and a row
\* whose cell count is not N is never written.
C9_FailFast ==
    (wfmt \in {"csv", "tsv"} /\ wpc # "start") =>
        /\ newlines = nrows + 1
        /\ Fields(wline, wfmt) = Len(columns)
        /\ nrows > 0 => Len(row) = Len(columns)

\* C9, amended: after M rows the output holds M+1 newlines; the header has N
\* fields and each row's line has as many fields as the row has cells (N for
\* a row that matches the columns), whatever the cells are; a row of another
\* cell count is written all the same.
C9_Delimited ==
    (wfmt \in {"csv", "tsv"} /\ wpc # "start") =>
        /\ newlines = nrows + 1
        /\ nrows = 0 => Fields(wline, wfmt) = Len(columns)
        /\ nrows > 0 => Fields(wline, wfmt) = Len(row)

\* C9 witness: a CSV row of two cells for two columns, a list and a text
\* that both hold a comma, written as the last of at least two rows.
C9_Witness ==
    /\ wfmt = "csv"
    /\ wpc = "done"
    /\ nrows >= 2
    /\ Len(columns) = 2
    /\ row = <<List(<<Num(<<"1">>), Str(<<"a", ",", "b">>)>>), Str(<<"a", ",", "b">>)>>
    /\ newlines = nrows + 1

-----------------------------------------------------------------------------
(* Claims about the tokenizer *)

\* The whitespace-delimited tokens of a text, left to right
TokensOf(text) == SelectSeq(text, LAMBDA c : c \notin Whitespace)

\* The first token of a text, or the sentinel
FirstToken(text) == IF TokensOf(text) = <<>> THEN None ELSE TokensOf(text)[1]

\* text from its k-th symbol on
From(text, k) == SubSeq(text, k, Len(text))

\* What follows the first token of a text, left-trimmed: the text from its
\* second token on
Remainder(text) ==
    LET at == {k \in 1..Len(text) :
                 /\ text[k] \notin Whitespace
                 /\ Len(TokensOf(SubSeq(text, 1, k))) = 2}
    IN IF at = {} THEN <<>> ELSE From(text, CHOOSE k \in at : TRUE)

\* C11: peek returns the buffer's first token and leaves the buffer as it
\* is; pop returns the token peek would and leaves the left-trimmed
\* remainder; both return the sentinel when no token is left; bool is true
\* exactly when a symbol that is not whitespace remains; and the tokens
\* popped so far, followed by the tokens still in the buffer, are the tokens
\* of the text the CommandLine was made from, left to right.
C11_Tokenizer ==
    [][ /\ cop' = "peek" => (ctok' = FirstToken(ctext) /\ ctext' = ctext)
        /\ cop' = "pop" => /\ ctok' = FirstToken(ctext)
                           /\ ctok' = peek(ctext)
                           /\ ctext' = Remainder(ctext)
        /\ cop' = "bool" => /\ ctruth' = (TokensOf(ctext) # <<>>)
                            /\ ctext' = ctext
        /\ cpopped' \o TokensOf(ctext') = TokensOf(craw')
        /\ (TokensOf(ctext) = <<>> /\ cop' \in {"peek", "pop"}) => ctok' = None
      ]_vars

\* C11 witness: a text with leading and doubled whitespace gave up its two
\* tokens in order, and the pop after them returned the sentinel.
C11_Witness ==
    /\ craw = <<" ", "a", " ", "\t", "b">>
    /\ cpopped = <<"a", "b">>
    /\ cop = "pop"
    /\ ctok = None
    /\ ctext = <<>>

=============================================================================
